---- MODULE Spec2Model ----
(***************************************************************************)
(* QR code generator (Ibragisha/GenerationQR).                             *)
(*                                                                         *)
(* The repository holds the generator twice: as the package                *)
(* src/project/{constants,encoder,error_correction,matrix,core}.py and as  *)
(* the single file src/project/QR_GENERATE.py.  The two differ in a few    *)
(* functions; the variable impl says which of the two programs runs        *)
(* ("pkg" or "mono") and the operators that differ take it as a parameter. *)
(*                                                                         *)
(* Strings are sequences of Unicode code points, bit lists are sequences   *)
(* of 0/1, codewords are integers 0..255.  Python lists are 0-based, TLA+  *)
(* sequences 1-based: index i of the source is index i+1 here.             *)
(***************************************************************************)
EXTENDS Integers, Sequences, FiniteSets, TLC

VARIABLES
  impl,              \* which program: "pkg" (the package) or "mono" (QR_GENERATE.py)
  pc,                \* position inside QRCode.__init__ / _generate
  data,              \* QRCode.data
  error_correction,  \* QRCode.error_correction, by name: "L","M","Q","H"
  version,           \* QRCode.version
  mode,              \* QRCode.mode
  encoded_data,      \* _generate: encoded_data
  padded_data,       \* _generate: padded_data
  data_codewords,    \* _generate: actual_data_codewords
  data_bits,         \* _generate: data_bits (the interleaved stream as bits)
  mask_pattern,      \* QRCode.mask_pattern
  matrix,            \* QRCode.matrix.matrix (<<>> while QRCode.matrix is None)
  error,             \* the exception that ended the constructor, "" if none
  call,              \* a direct call of one function of the program: its name and arguments
  ret                \* <<>> before that call returns, <<value>> after

vars == <<impl, pc, data, error_correction, version, mode, encoded_data, padded_data,
          data_codewords, data_bits, mask_pattern, matrix, error, call, ret>>

pipeVars == <<impl, pc, data, error_correction, version, mode, encoded_data, padded_data,
              data_codewords, data_bits, mask_pattern, matrix, error>>

-----------------------------------------------------------------------------
(* Integer helpers: Python's ^, >>, & on non-negative integers.            *)

RECURSIVE xor(_, _)
xor(a, b) ==
  IF a = 0 THEN b
  ELSE IF b = 0 THEN a
  ELSE (((a % 2) + (b % 2)) % 2) + 2 * xor(a \div 2, b \div 2)

RECURSIVE pow2(_)
pow2(k) == IF k = 0 THEN 1 ELSE 2 * pow2(k - 1)

\* (x >> j) & 1
bit(x, j) == (x \div pow2(j)) % 2

\* the w bits of x, most significant first: for j in range(w-1, -1, -1): (x >> j) & 1
bits_msb(x, w) == [p \in 1..w |-> bit(x, w - p)]

abs(x) == IF x < 0 THEN -x ELSE x

min(a, b) == IF a < b THEN a ELSE b

SetMax(S) == CHOOSE x \in S : \A y \in S : y <= x

\* sum(s), summed by halves
RECURSIVE SeqSum(_)
SeqSum(s) ==
  IF Len(s) = 0 THEN 0
  ELSE IF Len(s) = 1 THEN s[1]
  ELSE LET h == Len(s) \div 2
       IN  SeqSum(SubSeq(s, 1, h)) + SeqSum(SubSeq(s, h + 1, Len(s)))

\* the concatenation of the sequences of ss in order, joined by halves
RECURSIVE Flatten(_)
Flatten(ss) ==
  IF Len(ss) = 0 THEN <<>>
  ELSE IF Len(ss) = 1 THEN ss[1]
  ELSE LET h == Len(ss) \div 2
       IN  Flatten(SubSeq(ss, 1, h)) \o Flatten(SubSeq(ss, h + 1, Len(ss)))

\* for i in range(lo, hi): s = Body(s, i).  The range is run by halves, and
\* the comparison s1 = s1 has TLC compute the state after the first half
\* before it starts the second, which keeps the evaluation shallow.
RECURSIVE Loop(_, _, _, _)
Loop(Body(_, _), lo, hi, s) ==
  IF lo >= hi THEN s
  ELSE IF hi = lo + 1 THEN Body(s, lo)
  ELSE LET mid == (lo + hi) \div 2
           s1  == Loop(Body, lo, mid, s)
       IN  IF s1 = s1 THEN Loop(Body, mid, hi, s1) ELSE s1

Repeat(x, n) == [p \in 1..n |-> x]

\* s[a:b] of Python for 0 <= a, with b cut at len(s)
Slice(s, a, b) == SubSeq(s, a + 1, min(b, Len(s)))

-----------------------------------------------------------------------------
(* constants.py                                                            *)

\* ErrorCorrectionLevel: name -> value
ErrorCorrectionLevel == [L |-> 1, M |-> 0, Q |-> 3, H |-> 2]

ECLNames == {"L", "M", "Q", "H"}

\* EncodingMode: name -> value
EncodingMode == [NUMERIC |-> 1, ALPHANUMERIC |-> 2, BYTE |-> 4, KANJI |-> 8]

ModeNames == {"NUMERIC", "ALPHANUMERIC", "BYTE", "KANJI"}

\* The dict literal of the source, entry by entry in source order.  The
\* literal names the keys 5 and 6 twice; Python keeps the last entry of a key.
QR_CAPACITY_ENTRIES ==
  <<
    <<1, [L |-> [numeric |-> 41, alphanumeric |-> 25, byte |-> 17, kanji |-> 10,
                 total_codewords |-> 26, groups |-> <<<<1, 19, 7>>>>],
          M |-> [numeric |-> 34, alphanumeric |-> 20, byte |-> 14, kanji |-> 8,
                 total_codewords |-> 26, groups |-> <<<<1, 16, 10>>>>],
          Q |-> [numeric |-> 27, alphanumeric |-> 16, byte |-> 11, kanji |-> 7,
                 total_codewords |-> 26, groups |-> <<<<1, 13, 13>>>>],
          H |-> [numeric |-> 17, alphanumeric |-> 10, byte |-> 7, kanji |-> 4,
                 total_codewords |-> 26, groups |-> <<<<1, 9, 17>>>>]]>>,
    <<2, [L |-> [numeric |-> 77, alphanumeric |-> 47, byte |-> 32, kanji |-> 20,
                 total_codewords |-> 44, groups |-> <<<<1, 34, 10>>>>],
          M |-> [numeric |-> 63, alphanumeric |-> 38, byte |-> 26, kanji |-> 16,
                 total_codewords |-> 44, groups |-> <<<<1, 28, 16>>>>],
          Q |-> [numeric |-> 48, alphanumeric |-> 29, byte |-> 20, kanji |-> 12,
                 total_codewords |-> 44, groups |-> <<<<1, 22, 22>>>>],
          H |-> [numeric |-> 34, alphanumeric |-> 20, byte |-> 14, kanji |-> 8,
                 total_codewords |-> 44, groups |-> <<<<1, 16, 28>>>>]]>>,
    <<3, [L |-> [numeric |-> 127, alphanumeric |-> 77, byte |-> 53, kanji |-> 32,
                 total_codewords |-> 70, groups |-> <<<<1, 55, 15>>>>],
          M |-> [numeric |-> 101, alphanumeric |-> 61, byte |-> 42, kanji |-> 26,
                 total_codewords |-> 70, groups |-> <<<<1, 44, 26>>>>],
          Q |-> [numeric |-> 77, alphanumeric |-> 47, byte |-> 32, kanji |-> 20,
                 total_codewords |-> 70, groups |-> <<<<2, 17, 13>>>>],
          H |-> [numeric |-> 58, alphanumeric |-> 35, byte |-> 24, kanji |-> 15,
                 total_codewords |-> 70, groups |-> <<<<2, 13, 22>>>>]]>>,
    <<4, [L |-> [numeric |-> 187, alphanumeric |-> 114, byte |-> 78, kanji |-> 48,
                 total_codewords |-> 100, groups |-> <<<<1, 80, 20>>>>],
          M |-> [numeric |-> 149, alphanumeric |-> 90, byte |-> 62, kanji |-> 38,
                 total_codewords |-> 100, groups |-> <<<<2, 32, 18>>>>],
          Q |-> [numeric |-> 111, alphanumeric |-> 67, byte |-> 46, kanji |-> 28,
                 total_codewords |-> 100, groups |-> <<<<2, 24, 26>>>>],
          H |-> [numeric |-> 82, alphanumeric |-> 50, byte |-> 34, kanji |-> 21,
                 total_codewords |-> 100, groups |-> <<<<4, 9, 16>>>>]]>>,
    <<5, [L |-> [numeric |-> 255, alphanumeric |-> 154, byte |-> 106, kanji |-> 65,
                 total_codewords |-> 134, groups |-> <<<<1, 108, 26>>>>],
          M |-> [numeric |-> 202, alphanumeric |-> 122, byte |-> 84, kanji |-> 52,
                 total_codewords |-> 134, groups |-> <<<<2, 43, 22>>>>],
          Q |-> [numeric |-> 144, alphanumeric |-> 87, byte |-> 60, kanji |-> 37,
                 total_codewords |-> 134, groups |-> <<<<2, 15, 18>>, <<2, 16, 26>>>>],
          H |-> [numeric |-> 106, alphanumeric |-> 64, byte |-> 44, kanji |-> 27,
                 total_codewords |-> 134, groups |-> <<<<2, 11, 24>>, <<2, 12, 28>>>>]]>>,
    <<6, [L |-> [numeric |-> 322, alphanumeric |-> 195, byte |-> 134, kanji |-> 82,
                 total_codewords |-> 172, groups |-> <<<<2, 68, 18>>>>],
          M |-> [numeric |-> 255, alphanumeric |-> 154, byte |-> 106, kanji |-> 65,
                 total_codewords |-> 172, groups |-> <<<<4, 27, 16>>>>],
          Q |-> [numeric |-> 178, alphanumeric |-> 108, byte |-> 74, kanji |-> 45,
                 total_codewords |-> 172, groups |-> <<<<4, 19, 24>>>>],
          H |-> [numeric |-> 139, alphanumeric |-> 84, byte |-> 58, kanji |-> 36,
                 total_codewords |-> 172, groups |-> <<<<4, 15, 28>>>>]]>>,
    <<5, [L |-> [numeric |-> 255, alphanumeric |-> 154, byte |-> 106, kanji |-> 65,
                 total_codewords |-> 134, groups |-> <<<<1, 108, 26>>>>],
          M |-> [numeric |-> 202, alphanumeric |-> 122, byte |-> 84, kanji |-> 52,
                 total_codewords |-> 134, groups |-> <<<<2, 43, 22>>>>],
          Q |-> [numeric |-> 144, alphanumeric |-> 87, byte |-> 60, kanji |-> 37,
                 total_codewords |-> 134, groups |-> <<<<2, 15, 18>>, <<2, 16, 26>>>>],
          H |-> [numeric |-> 106, alphanumeric |-> 64, byte |-> 44, kanji |-> 27,
                 total_codewords |-> 134, groups |-> <<<<2, 11, 24>>, <<2, 12, 28>>>>]]>>,
    <<6, [L |-> [numeric |-> 322, alphanumeric |-> 195, byte |-> 134, kanji |-> 82,
                 total_codewords |-> 172, groups |-> <<<<2, 68, 18>>>>],
          M |-> [numeric |-> 255, alphanumeric |-> 154, byte |-> 106, kanji |-> 65,
                 total_codewords |-> 172, groups |-> <<<<4, 27, 16>>>>],
          Q |-> [numeric |-> 178, alphanumeric |-> 108, byte |-> 74, kanji |-> 45,
                 total_codewords |-> 172, groups |-> <<<<4, 19, 24>>>>],
          H |-> [numeric |-> 139, alphanumeric |-> 84, byte |-> 58, kanji |-> 36,
                 total_codewords |-> 172, groups |-> <<<<4, 15, 28>>>>]]>>
  >>

\* the versions that are keys of QR_CAPACITY_TABLE
CapacityVersions == {QR_CAPACITY_ENTRIES[i][1] : i \in DOMAIN QR_CAPACITY_ENTRIES}

QR_CAPACITY_TABLE ==
  [v \in CapacityVersions |->
     QR_CAPACITY_ENTRIES[SetMax({i \in DOMAIN QR_CAPACITY_ENTRIES :
                                   QR_CAPACITY_ENTRIES[i][1] = v})][2]]

\* capacity_info.get(mode.name.lower(), 0)
capacity_of(info, m) ==
  CASE m = "NUMERIC" -> info.numeric
    [] m = "ALPHANUMERIC" -> info.alphanumeric
    [] m = "BYTE" -> info.byte
    [] m = "KANJI" -> info.kanji
    [] OTHER -> 0

\* keyed by version 1..40
ALIGNMENT_PATTERN_POSITIONS ==
  <<
    <<>>,
    <<6, 18>>,
    <<6, 22>>,
    <<6, 26>>,
    <<6, 30>>,
    <<6, 34>>,
    <<6, 22, 38>>,
    <<6, 24, 42>>,
    <<6, 26, 46>>,
    <<6, 28, 50>>,
    <<6, 30, 54>>,
    <<6, 32, 58>>,
    <<6, 34, 62>>,
    <<6, 26, 46, 66>>,
    <<6, 26, 48, 70>>,
    <<6, 26, 50, 74>>,
    <<6, 30, 54, 78>>,
    <<6, 30, 56, 82>>,
    <<6, 30, 58, 86>>,
    <<6, 34, 62, 90>>,
    <<6, 28, 50, 72, 94>>,
    <<6, 26, 50, 74, 98>>,
    <<6, 30, 54, 78, 102>>,
    <<6, 28, 54, 80, 106>>,
    <<6, 32, 58, 84, 110>>,
    <<6, 30, 58, 86, 114>>,
    <<6, 34, 62, 90, 118>>,
    <<6, 26, 50, 74, 98, 122>>,
    <<6, 30, 54, 78, 102, 126>>,
    <<6, 26, 52, 78, 104, 130>>,
    <<6, 30, 56, 82, 108, 134>>,
    <<6, 34, 60, 86, 112, 138>>,
    <<6, 30, 58, 86, 114, 142>>,
    <<6, 34, 62, 90, 118, 146>>,
    <<6, 30, 54, 78, 102, 126, 150>>,
    <<6, 24, 50, 76, 102, 128, 154>>,
    <<6, 28, 54, 80, 106, 132, 158>>,
    <<6, 32, 58, 84, 110, 136, 162>>,
    <<6, 26, 54, 82, 110, 138, 166>>,
    <<6, 30, 58, 86, 114, 142, 170>>
  >>

\* ALIGNMENT_PATTERN_POSITIONS.get(version, [])
alignment_positions(v) ==
  IF v \in DOMAIN ALIGNMENT_PATTERN_POSITIONS THEN ALIGNMENT_PATTERN_POSITIONS[v] ELSE <<>>

\* 0-based list of the source at index i+1
FORMAT_INFO_TABLE ==
  <<
    30660, 29427, 32170, 30877, 26159, 25368, 27713, 26998,
    21522, 20773, 24188, 23371, 17913, 16590, 20375, 19104,
    13663, 12392, 16177, 14854, 9396, 8579, 11994, 11245,
    5769, 5054, 7399, 6608, 1890, 597, 3340, 2107
  >>

\* 0-based list of the source at index i+1; entry i is version i+7
VERSION_INFO_TABLE ==
  <<
    31892, 34236, 39449, 42206, 47944,
    51042, 55751, 58987, 63694, 68464,
    71125, 76409, 79324, 84598, 87520,
    92741, 95718, 100968, 103885, 109145,
    112124, 117343, 120307, 125565, 128472,
    133318, 137059, 141775, 145258, 149988,
    153409, 158189, 161608, 166358
  >>

\* '0123456789ABCDEFGHIJKLMNOPQRSTUVWXYZ $%*+-./:' as code points
ALPHANUMERIC_CHARS ==
  <<
    48, 49, 50, 51, 52, 53, 54, 55, 56, 57, 65, 66, 67, 68, 69,
    70, 71, 72, 73, 74, 75, 76, 77, 78, 79, 80, 81, 82, 83, 84,
    85, 86, 87, 88, 89, 90, 32, 36, 37, 42, 43, 45, 46, 47, 58
  >>

\* keyed by the number of error-correction codewords; coefficients highest degree first
GENERATOR_POLYNOMIALS ==
     (7 :> <<1, 127, 122, 154, 164, 11, 68, 117>>)
  @@ (10 :> <<1, 216, 194, 159, 111, 199, 94, 95, 113, 157, 193>>)
  @@ (13 :> <<1, 137, 73, 227, 17, 177, 17, 52, 13, 46, 43, 83, 132, 120>>)
  @@ (15 :> <<1, 29, 196, 111, 163, 112, 74, 10, 105, 105, 139, 132, 151, 32, 134, 26>>)
  @@ (16 :> <<1, 59, 13, 104, 189, 68, 209, 30, 8, 163, 65, 41, 229, 98, 50, 36,
            59>>)
  @@ (17 :> <<1, 119, 66, 83, 120, 119, 22, 197, 83, 249, 41, 143, 134, 85, 53, 125,
            99, 79>>)
  @@ (18 :> <<1, 239, 251, 183, 113, 149, 175, 199, 215, 240, 220, 73, 82, 173, 75, 32,
            67, 217, 146>>)
  @@ (20 :> <<1, 152, 185, 240, 5, 111, 99, 6, 220, 112, 150, 69, 36, 187, 22, 228,
            198, 121, 121, 165, 174>>)
  @@ (22 :> <<1, 89, 179, 131, 176, 182, 244, 19, 189, 69, 40, 28, 137, 29, 123, 67,
            253, 86, 218, 230, 26, 145, 245>>)
  @@ (24 :> <<1, 122, 118, 169, 70, 178, 237, 216, 102, 115, 150, 229, 73, 130, 72, 61,
            43, 206, 1, 237, 247, 127, 217, 144, 117>>)
  @@ (26 :> <<1, 246, 51, 183, 4, 136, 13, 227, 42, 141, 60, 65, 253, 224, 27, 217,
            35, 208, 145, 7, 228, 72, 29, 111, 185, 153, 208>>)
  @@ (28 :> <<1, 252, 9, 28, 13, 18, 251, 208, 150, 103, 174, 100, 41, 167, 12, 247,
            56, 117, 119, 233, 127, 181, 100, 121, 147, 176, 74, 58, 197>>)
  @@ (30 :> <<1, 212, 246, 77, 73, 195, 192, 75, 98, 5, 70, 103, 177, 22, 217, 138,
            51, 181, 246, 72, 25, 18, 46, 228, 74, 216, 195, 11, 106, 130, 150>>)

\* get_format_info with the table indexed by the level's two-bit value, as the
\* comment above FORMAT_INFO_TABLE words it
get_format_info_by_value(ecl, mask) ==
  FORMAT_INFO_TABLE[(ErrorCorrectionLevel[ecl] * 8 + mask) + 1]

get_format_info(ecl, mask) ==
  LET ec_map == [L |-> 0, M |-> 8, Q |-> 16, H |-> 24]
      index  == ec_map[ecl] + mask
  IN  FORMAT_INFO_TABLE[index + 1]

\* raises ValueError when index >= len(FORMAT_INFO_TABLE)
get_format_info_raises(ecl, mask) ==
  LET ec_map == [L |-> 0, M |-> 8, Q |-> 16, H |-> 24]
  IN  ec_map[ecl] + mask >= Len(FORMAT_INFO_TABLE)

get_version_info(v) ==
  IF 7 <= v /\ v <= 40 THEN VERSION_INFO_TABLE[v - 7 + 1] ELSE 0

-----------------------------------------------------------------------------
(* error_correction.py: GaloisField                                        *)

\* one iteration of the loop of _init_tables on (x, exp_table, log_table)
_init_tables_step(t, i) ==
  LET x  == t.x
      x2 == 2 * x
  IN  [x         |-> IF bit(x2, 8) = 1 THEN xor(x2, 285) ELSE x2,
       exp_table |-> [t.exp_table EXCEPT ![i] = x, ![i + 255] = x],
       log_table |-> [t.log_table EXCEPT ![x] = i]]

\* GaloisField.__init__ and _init_tables
GaloisField ==
  LET t == Loop(_init_tables_step, 0, 255,
                [x |-> 1, exp_table |-> [i \in 0..511 |-> 0], log_table |-> [i \in 0..255 |-> 0]])
  IN  [exp_table |-> [t.exp_table EXCEPT ![255] = t.exp_table[0]],
       log_table |-> t.log_table]

\* GaloisField.mul without the test for a zero operand
mul_without_zero_test(gf, a, b) == gf.exp_table[gf.log_table[a] + gf.log_table[b]]

\* GaloisField.mul; gf is the field object (self)
mul(gf, a, b) ==
  IF a = 0 \/ b = 0 THEN 0
  ELSE gf.exp_table[gf.log_table[a] + gf.log_table[b]]

\* GaloisField.inverse; raises ValueError for x = 0
inverse(gf, x) == gf.exp_table[255 - gf.log_table[x]]

inverse_raises(x) == x = 0

-----------------------------------------------------------------------------
(* error_correction.py / QR_GENERATE.py: ReedSolomonEncoder                *)

\* _multiply_polynomials (QR_GENERATE.py)
RECURSIVE XorAll(_)
XorAll(s) == IF s = <<>> THEN 0 ELSE xor(Head(s), XorAll(Tail(s)))

_multiply_polynomials(gf, a, b) ==
  [p \in 1..(Len(a) + Len(b) - 1) |->
     XorAll([i \in 1..Len(a) |->
               IF p - i + 1 \in 1..Len(b) THEN mul(gf, a[i], b[p - i + 1]) ELSE 0])]

\* _get_generator_polynomial (QR_GENERATE.py)
_get_generator_polynomial(gf, ecc_count) ==
  IF ecc_count \in DOMAIN GENERATOR_POLYNOMIALS
  THEN GENERATOR_POLYNOMIALS[ecc_count]
  ELSE LET step(generator, i) == _multiply_polynomials(gf, generator, <<1, gf.exp_table[i]>>)
       IN  Loop(step, 0, ecc_count, <<1>>)

\* one iteration i (0-based) of the division loop of the package's encode
rs_step_pkg(gf, message, generator, i) ==
  LET coef == message[i + 1]
  IN  IF coef = 0 THEN message
      ELSE [p \in 1..Len(message) |->
              LET j == p - 1 - i
              IN  IF j >= 0 /\ j < Len(generator)
                  THEN xor(message[p], mul(gf, generator[(Len(generator) - 1 - j) + 1], coef))
                  ELSE message[p]]

\* one iteration i (0-based) of the division loop of QR_GENERATE.py's encode
rs_step_mono(gf, message, generator, i) ==
  IF message[i + 1] = 0 THEN message
  ELSE LET factor == inverse(gf, message[i + 1])
       IN  [p \in 1..Len(message) |->
              LET j == p - 1 - i
              IN  IF j >= 0 /\ j < Len(generator)
                  THEN xor(mul(gf, message[p], factor), generator[j + 1])
                  ELSE message[p]]

\* rs_encode_raises with the polynomials of version 1 alone in the table
rs_encode_raises_version_1_only(im, ecc_count) ==
  im = "pkg" /\ ecc_count \notin {7, 10, 13, 17}

\* the package raises ValueError when ecc_count is no key of GENERATOR_POLYNOMIALS
rs_encode_raises(im, ecc_count) ==
  im = "pkg" /\ ecc_count \notin DOMAIN GENERATOR_POLYNOMIALS

\* ReedSolomonEncoder.encode(data, ecc_count), ecc_count >= 1; self.gf = GaloisField()
rs_encode(im, d, ecc_count) ==
  LET gf        == GaloisField
      generator == IF im = "pkg" THEN GENERATOR_POLYNOMIALS[ecc_count]
                                 ELSE _get_generator_polynomial(gf, ecc_count)
      step(m, i) == IF im = "pkg" THEN rs_step_pkg(gf, m, generator, i)
                                  ELSE rs_step_mono(gf, m, generator, i)
      message   == Loop(step, 0, Len(d), d \o Repeat(0, ecc_count))
  IN  Slice(message, Len(message) - ecc_count, Len(message))

-----------------------------------------------------------------------------
(* The Python string built-ins the encoder calls, on the code points the   *)
(* model draws its payloads from.                                          *)

\* code points c with chr(c).isdigit(): ASCII digits, superscripts 2 3 1, Arabic-Indic digits
DigitChars == (48..57) \cup {178, 179, 185} \cup (1632..1641)

\* code points int() accepts as a decimal digit, with their value
DecimalChars == (48..57) \cup (1632..1641)

decimal_value(c) == IF c \in 48..57 THEN c - 48 ELSE c - 1632

\* str.isdigit(): false for the empty string
str_isdigit(s) == s # <<>> /\ \A i \in DOMAIN s : s[i] \in DigitChars

\* int(group) raises ValueError for a digit that is no decimal (superscripts)
int_raises(s) == \E i \in DOMAIN s : s[i] \notin DecimalChars

RECURSIVE int_of(_)
int_of(s) ==
  IF s = <<>> THEN 0
  ELSE 10 * int_of(SubSeq(s, 1, Len(s) - 1)) + decimal_value(s[Len(s)])

\* chr(c).upper() as a string: some characters upper-case to two characters
char_upper(c) ==
  IF c \in 97..122 THEN <<c - 32>>
  ELSE IF c = 181 THEN <<924>>
  ELSE IF c = 223 THEN <<83, 83>>
  ELSE IF c \in (224..254) \ {247} THEN <<c - 32>>
  ELSE IF c = 255 THEN <<376>>
  ELSE IF c \in {64261, 64262} THEN <<83, 84>>
  ELSE <<c>>

\* str.upper()
str_upper(s) == Flatten([i \in DOMAIN s |-> char_upper(s[i])])

\* u in t, for strings: u occurs in t as a substring
str_in(u, t) ==
  \E k \in 0..(Len(t) - Len(u)) : \A p \in 1..Len(u) : t[k + p] = u[p]

\* str.encode('utf-8') of one code point (no surrogates)
utf8_char(c) ==
  IF c < 128 THEN <<c>>
  ELSE IF c < 2048 THEN <<192 + (c \div 64), 128 + (c % 64)>>
  ELSE IF c < 65536 THEN <<224 + (c \div 4096), 128 + ((c \div 64) % 64), 128 + (c % 64)>>
  ELSE <<240 + (c \div 262144), 128 + ((c \div 4096) % 64),
         128 + ((c \div 64) % 64), 128 + (c % 64)>>

utf8_encode(s) == Flatten([i \in DOMAIN s |-> utf8_char(s[i])])

-----------------------------------------------------------------------------
(* encoder.py / QR_GENERATE.py: DataEncoder                                *)

_is_alphanumeric(s) == \A i \in DOMAIN s : str_in(char_upper(s[i]), ALPHANUMERIC_CHARS)

\* the package detects the mode; QR_GENERATE.py returns BYTE before the same code
detect_mode(im, s) ==
  IF im = "mono" THEN "BYTE"
  ELSE IF str_isdigit(s) THEN "NUMERIC"
  ELSE IF _is_alphanumeric(s) THEN "ALPHANUMERIC"
  ELSE "BYTE"

get_mode_indicator(m) ==
  CASE m = "NUMERIC" -> <<0, 0, 0, 1>>
    [] m = "ALPHANUMERIC" -> <<0, 0, 1, 0>>
    [] m = "BYTE" -> <<0, 1, 0, 0>>
    [] m = "KANJI" -> <<1, 0, 0, 0>>

\* get_char_count_bits with the Byte width of versions 1..9 for every mode
get_char_count_bits_byte_width(m, v) == 8

get_char_count_bits(m, v) ==
  IF v <= 9 THEN
    (CASE m = "NUMERIC" -> 10 [] m = "ALPHANUMERIC" -> 9 [] m = "BYTE" -> 8 [] m = "KANJI" -> 8)
  ELSE IF v <= 26 THEN
    (CASE m = "NUMERIC" -> 12 [] m = "ALPHANUMERIC" -> 11 [] m = "BYTE" -> 16 [] m = "KANJI" -> 10)
  ELSE
    (CASE m = "NUMERIC" -> 14 [] m = "ALPHANUMERIC" -> 13 [] m = "BYTE" -> 16 [] m = "KANJI" -> 12)

\* for i in range(0, len(data), 3): the groups data[i:i+3]
numeric_groups(s) == [g \in 1..((Len(s) + 2) \div 3) |-> Slice(s, 3 * (g - 1), 3 * (g - 1) + 3)]

encode_numeric_raises(s) == \E i \in DOMAIN s : s[i] \notin DecimalChars

\* encode_numeric writing every group, also a shorter last one, in 10 bits
encode_numeric_ten_bits(s) ==
  Flatten([g \in DOMAIN numeric_groups(s) |-> bits_msb(int_of(numeric_groups(s)[g]), 10)])

encode_numeric(s) ==
  Flatten([g \in DOMAIN numeric_groups(s) |->
             LET group     == numeric_groups(s)[g]
                 value     == int_of(group)
                 bit_count == IF Len(group) = 3 THEN 10 ELSE IF Len(group) = 2 THEN 7 ELSE 4
             IN  bits_msb(value, bit_count)])

\* char_values = {char: i for i, char in enumerate(ALPHANUMERIC_CHARS)}
char_values(c) == SetMax({i \in DOMAIN ALPHANUMERIC_CHARS : ALPHANUMERIC_CHARS[i] = c}) - 1

encode_alphanumeric(s) ==
  LET d == str_upper(s)
  IN  Flatten([g \in 1..((Len(d) + 1) \div 2) |->
                 LET i == 2 * (g - 1)
                 IN  IF i + 1 < Len(d)
                     THEN bits_msb(char_values(d[i + 1]) * 45 + char_values(d[i + 2]), 11)
                     ELSE bits_msb(char_values(d[i + 1]), 6)])

\* the package writes the low 8 bits of ord(char); QR_GENERATE.py the UTF-8 bytes
encode_byte(im, s) ==
  LET byte_values == IF im = "pkg" THEN s ELSE utf8_encode(s)
  IN  Flatten([i \in DOMAIN byte_values |-> bits_msb(byte_values[i], 8)])

encode_kanji(im, s) == encode_byte(im, s)

encode_raises(m, s) == m = "NUMERIC" /\ encode_numeric_raises(s)

\* DataEncoder.encode(data, mode, version)
encode(im, s, m, v) ==
  get_mode_indicator(m)
  \o bits_msb(Len(s), get_char_count_bits(m, v))
  \o (CASE m = "NUMERIC" -> encode_numeric(s)
        [] m = "ALPHANUMERIC" -> encode_alphanumeric(s)
        [] m = "BYTE" -> encode_byte(im, s)
        [] m = "KANJI" -> encode_kanji(im, s))

padding_patterns == << <<1, 1, 1, 0, 1, 1, 0, 0>>, <<0, 0, 0, 1, 0, 0, 0, 1>> >>

\* the padding loop on (result, pattern_index); it runs once per missing byte
padding_step(t, i) ==
  IF Len(t.result) < t.total_bits
  THEN [t EXCEPT !.result = t.result \o padding_patterns[t.pattern_index + 1],
                 !.pattern_index = (t.pattern_index + 1) % 2]
  ELSE t

\* add_terminator_and_padding without the loop that adds the pad bytes
add_terminator_and_padding_no_pad_bytes(bits, total_bits) ==
  LET terminator_length == min(4, total_bits - Len(bits))
      r1 == bits \o Repeat(0, IF terminator_length > 0 THEN terminator_length ELSE 0)
      r2 == r1 \o Repeat(0, (8 - (Len(r1) % 8)) % 8)
  IN  Slice(r2, 0, total_bits)

\* add_terminator_and_padding with the pad bytes starting at 0x11
add_terminator_and_padding_from_0x11(bits, total_bits) ==
  LET terminator_length == min(4, total_bits - Len(bits))
      r1 == bits \o Repeat(0, IF terminator_length > 0 THEN terminator_length ELSE 0)
      r2 == r1 \o Repeat(0, (8 - (Len(r1) % 8)) % 8)
      passes == IF total_bits > Len(r2) THEN (total_bits - Len(r2) + 7) \div 8 ELSE 0
      r3 == Loop(padding_step, 0, passes,
                 [result |-> r2, pattern_index |-> 1, total_bits |-> total_bits]).result
  IN  Slice(r3, 0, total_bits)

\* DataEncoder.add_terminator_and_padding(bits, total_bits)
add_terminator_and_padding(bits, total_bits) ==
  LET terminator_length == min(4, total_bits - Len(bits))
      r1 == bits \o Repeat(0, IF terminator_length > 0 THEN terminator_length ELSE 0)
      r2 == r1 \o Repeat(0, (8 - (Len(r1) % 8)) % 8)
      \* while len(result) < total_bits: every pass adds 8 bits
      passes == IF total_bits > Len(r2) THEN (total_bits - Len(r2) + 7) \div 8 ELSE 0
      r3 == Loop(padding_step, 0, passes,
                 [result |-> r2, pattern_index |-> 0, total_bits |-> total_bits]).result
  IN  Slice(r3, 0, total_bits)

-----------------------------------------------------------------------------
(* matrix.py / QR_GENERATE.py: QRMatrix.  A matrix is a function           *)
(* row -> column -> cell on 0..size-1; a cell is True, False or None.      *)

True == 1

False == 0

None == 2

\* Python's not x on a cell: not None is True
py_not(x) == IF x = True THEN False ELSE True

\* QRMatrix.__init__ with a four-module border counted into the size
size_of_with_border(v) == v * 4 + 17 + 8

size_of(v) == v * 4 + 17

\* QRCode.get_size()
get_size(v) == v * 4 + 17

matrix_size(m) == Cardinality(DOMAIN m)

\* self.matrix[r][c] = x
set_cell(m, r, c, x) == [m EXCEPT ![r][c] = x]

\* a list of writes <<r, c, x>> done in order
apply_writes(m, writes) ==
  LET step(mm, k) == set_cell(mm, writes[k + 1][1], writes[k + 1][2], writes[k + 1][3])
  IN  Loop(step, 0, Len(writes), m)

_draw_finder_pattern(m, row, col) ==
  LET size == matrix_size(m)
  IN  [r \in 0..(size - 1) |-> [c \in 0..(size - 1) |->
         LET i == r - row
             j == c - col
         IN  IF i \in 2..4 /\ j \in 2..4 THEN True
             ELSE IF i \in 1..5 /\ j \in 1..5 THEN False
             ELSE IF i \in 0..6 /\ j \in 0..6 THEN True
             ELSE m[r][c]]]

_place_finder_patterns(m) ==
  LET size == matrix_size(m)
      positions == << <<0, 0>>, <<size - 7, 0>>, <<0, size - 7>> >>
      step(mm, k) == _draw_finder_pattern(mm, positions[k + 1][1], positions[k + 1][2])
  IN  Loop(step, 0, Len(positions), m)

_place_separators(m) ==
  LET size == matrix_size(m)
      horizontal == Flatten([k \in 1..8 |->
                       LET col == k - 1
                       IN  << <<7, col, False>>, <<7, size - 8 + col, False>>,
                              <<size - 8, col, False>> >>])
      vertical   == Flatten([k \in 1..8 |->
                       LET row == k - 1
                       IN  << <<row, 7, False>>, <<row, size - 8, False>>,
                              <<size - 8 + row, 7, False>> >>])
  IN  apply_writes(m, horizontal \o vertical)

_place_timing_patterns(m) ==
  LET size == matrix_size(m)
  IN  [r \in 0..(size - 1) |-> [c \in 0..(size - 1) |->
         IF c = 6 /\ r \in 8..(size - 9) THEN (IF (r - 8) % 2 = 0 THEN True ELSE False)
         ELSE IF r = 6 /\ c \in 8..(size - 9) THEN (IF (c - 8) % 2 = 0 THEN True ELSE False)
         ELSE m[r][c]]]

\* the package skips a centre within 2 of a finder centre, QR_GENERATE.py within 4
_overlaps_finder(im, size, row, col) ==
  LET finder_positions == { <<3, 3>>, <<size - 4, 3>>, <<3, size - 4>> }
      d == IF im = "pkg" THEN 2 ELSE 4
  IN  \E f \in finder_positions : abs(row - f[1]) <= d /\ abs(col - f[2]) <= d

alignment_pattern ==
  << <<True, True,  True,  True,  True>>,
     <<True, False, False, False, True>>,
     <<True, False, True,  False, True>>,
     <<True, False, False, False, True>>,
     <<True, True,  True,  True,  True>> >>

_draw_alignment_pattern(m, center_row, center_col) ==
  LET size == matrix_size(m)
  IN  [r \in 0..(size - 1) |-> [c \in 0..(size - 1) |->
         LET i == r - center_row + 2
             j == c - center_col + 2
         IN  IF i \in 0..4 /\ j \in 0..4 THEN alignment_pattern[i + 1][j + 1] ELSE m[r][c]]]

_place_alignment_patterns(im, m, v) ==
  LET size == matrix_size(m)
      positions == alignment_positions(v)
      n == Len(positions)
      \* iteration k of the two nested loops: centre (positions[k div n], positions[k mod n])
      step(mm, k) ==
        LET center_row == positions[(k \div n) + 1]
            center_col == positions[(k % n) + 1]
        IN  IF _overlaps_finder(im, size, center_row, center_col) THEN mm
            ELSE _draw_alignment_pattern(mm, center_row, center_col)
  IN  Loop(step, 0, n * n, m)

_place_dark_module(m) == set_cell(m, matrix_size(m) - 8, 8, True)

\* writes None into cells that are None: no change
_reserve_format_areas(m) == m

\* QRMatrix.__init__
QRMatrix(im, v) ==
  LET size == size_of(v)
      m0 == [r \in 0..(size - 1) |-> [c \in 0..(size - 1) |-> None]]
      m1 == _place_finder_patterns(m0)
      m2 == _place_separators(m1)
      m3 == _place_timing_patterns(m2)
      m4 == _place_alignment_patterns(im, m3, v)
      m5 == _place_dark_module(m4)
  IN  _reserve_format_areas(m5)

\* _is_data_cell with the timing row and column as the only function cells
_is_data_cell_off_timing(v, row, col) == row # 6 /\ col # 6

_is_data_cell(v, row, col) ==
  LET size == size_of(v)
      positions == alignment_positions(v)
  IN  IF row < 9 /\ col < 9 THEN FALSE
      ELSE IF row < 9 /\ col >= size - 8 THEN FALSE
      ELSE IF row >= size - 8 /\ col < 9 THEN FALSE
      ELSE IF row = 6 \/ col = 6 THEN FALSE
      ELSE IF row = size - 8 /\ col = 8 THEN FALSE
      ELSE IF \E a \in DOMAIN positions : \E b \in DOMAIN positions :
                abs(row - positions[a]) <= 2 /\ abs(col - positions[b]) <= 2 THEN FALSE
      ELSE IF row = 8 \/ col = 8 THEN FALSE
      ELSE TRUE

\* _fill_remaining leaving the unset cells unset
_fill_remaining_leave_unset(m) == m

_fill_remaining(m) ==
  [r \in DOMAIN m |-> [c \in DOMAIN m[r] |-> IF m[r][c] = None THEN False ELSE m[r][c]]]

\* range(a, b, -step) as a sequence, a >= b
range_down(a, b, step) == [k \in 1..(IF a > b THEN (a - b + step - 1) \div step ELSE 0) |-> a - (k - 1) * step]

\* the cells place_data writes a bit or a padding False to, in the order it writes them.
\* Package: column pairs, every pair walked bottom to top, right cell then left cell.
visits_pkg(v) ==
  LET size == size_of(v)
      loop_cols == range_down(size - 1, -1, 2)
      rows == range_down(size - 1, -1, 1)
      pair(rc) ==
        LET right_col == IF rc = 6 THEN rc - 1 ELSE rc
            left_col  == IF right_col - 1 = 6 THEN right_col - 2 ELSE right_col - 1
        IN  Flatten([k \in DOMAIN rows |->
              LET row == rows[k]
              IN  IF row = 6 THEN <<>>
                  ELSE (IF right_col >= 0 /\ _is_data_cell(v, row, right_col)
                        THEN << <<row, right_col>> >> ELSE <<>>)
                    \o (IF left_col >= 0 /\ _is_data_cell(v, row, left_col)
                        THEN << <<row, left_col>> >> ELSE <<>>)])
  IN  Flatten([k \in DOMAIN loop_cols |-> pair(loop_cols[k])])

\* QR_GENERATE.py: single columns right to left, direction by column parity
visits_mono(v) ==
  LET size == size_of(v)
      cols == range_down(size - 1, -1, 1)
      column(col) ==
        LET up == (col % 2) = ((size - 1) % 2)
            row_range == IF up THEN range_down(size - 1, -1, 1) ELSE [k \in 1..size |-> k - 1]
        IN  IF col = 6 THEN <<>>
            ELSE Flatten([k \in DOMAIN row_range |->
                   LET row == row_range[k]
                   IN  IF row # 6 /\ _is_data_cell(v, row, col)
                       THEN << <<row, col>> >> ELSE <<>>])
  IN  Flatten([k \in DOMAIN cols |-> column(cols[k])])

visits(im, v) == IF im = "pkg" THEN visits_pkg(v) ELSE visits_mono(v)

\* QRMatrix.place_data(data_bits), which ends with _fill_remaining
place_data(im, m, v, bits) ==
  LET order == visits(im, v)
      total_bits == Len(bits)
      \* bit_index is the number of cells written so far
      step(mm, bit_index) ==
        set_cell(mm, order[bit_index + 1][1], order[bit_index + 1][2],
                 IF bit_index < total_bits THEN bits[bit_index + 1] ELSE False)
      placed == Loop(step, 0, Len(order), m)
  IN  _fill_remaining(placed)

_should_mask(row, col, mask) ==
  CASE mask = 0 -> (row + col) % 2 = 0
    [] mask = 1 -> row % 2 = 0
    [] mask = 2 -> col % 3 = 0
    [] mask = 3 -> (row + col) % 3 = 0
    [] mask = 4 -> ((row \div 2) + (col \div 3)) % 2 = 0
    [] mask = 5 -> ((row * col) % 2) + ((row * col) % 3) = 0
    [] mask = 6 -> (((row * col) % 2) + ((row * col) % 3)) % 2 = 0
    [] mask = 7 -> (((row + col) % 2) + ((row * col) % 3)) % 2 = 0
    [] OTHER -> FALSE

\* apply_mask setting the masked cells dark instead of inverting them
apply_mask_darken(m, v, mask) ==
  [r \in DOMAIN m |-> [c \in DOMAIN m[r] |->
     IF _is_data_cell(v, r, c) /\ _should_mask(r, c, mask) THEN True ELSE m[r][c]]]

apply_mask(m, v, mask) ==
  [r \in DOMAIN m |-> [c \in DOMAIN m[r] |->
     IF _is_data_cell(v, r, c) /\ _should_mask(r, c, mask) THEN py_not(m[r][c]) ELSE m[r][c]]]

format_positions == <<0, 1, 2, 3, 4, 5, 7, 8, 14, 15, 16, 17, 18, 19, 20>>

\* add_format_info writing column 8 without the skip of row size - 8
add_format_info_over_dark_module(im, m, format_bits) ==
  LET size == matrix_size(m)
      horizontal == Flatten([k \in 1..15 |->
                      LET i == k - 1
                          col == format_positions[k]
                          skip == IF im = "pkg" THEN col = 8 ELSE (col = 8 /\ 8 = size - 8)
                      IN  IF col < size /\ ~skip
                          THEN << <<8, col, bit(format_bits, 14 - i)>> >> ELSE <<>>])
      vertical   == Flatten([k \in 1..15 |->
                      LET i == k - 1
                          row == format_positions[k]
                      IN  IF row < size
                          THEN << <<row, 8, bit(format_bits, 14 - i)>> >> ELSE <<>>])
  IN  apply_writes(m, horizontal \o vertical)

\* add_format_info(format_bits).  Both programs walk the same position list
\* (QR_GENERATE.py builds it in a loop); the package skips column 8 of row 8,
\* QR_GENERATE.py would skip it only if size - 8 = 8.
add_format_info(im, m, format_bits) ==
  LET size == matrix_size(m)
      horizontal == Flatten([k \in 1..15 |->
                      LET i == k - 1
                          col == format_positions[k]
                          skip == IF im = "pkg" THEN col = 8 ELSE (col = 8 /\ 8 = size - 8)
                      IN  IF col < size /\ ~skip
                          THEN << <<8, col, bit(format_bits, 14 - i)>> >> ELSE <<>>])
      vertical   == Flatten([k \in 1..15 |->
                      LET i == k - 1
                          row == format_positions[k]
                      IN  IF row < size /\ row # size - 8
                          THEN << <<row, 8, bit(format_bits, 14 - i)>> >> ELSE <<>>])
  IN  apply_writes(m, horizontal \o vertical)

add_version_info(m, v, version_bits) ==
  IF v < 7 THEN m
  ELSE LET size == matrix_size(m)
           top_right   == [bit_pos \in 0..17 |->
                             <<bit_pos \div 3, size - 11 + (bit_pos % 3), bit(version_bits, 17 - bit_pos)>>]
           bottom_left == [bit_pos \in 0..17 |->
                             <<size - 11 + (bit_pos % 3), bit_pos \div 3, bit(version_bits, 17 - bit_pos)>>]
       IN  apply_writes(m, [k \in 1..18 |-> top_right[k - 1]] \o [k \in 1..18 |-> bottom_left[k - 1]])

\* Rule 1 on one line of cells (a sequence): every run of at least 5 scores its length - 2
run_score(line) ==
  LET step(t, i) ==
        IF line[i + 1] = line[i] THEN [t EXCEPT !.run_length = t.run_length + 1]
        ELSE [run_length |-> 1,
              score |-> t.score + (IF t.run_length >= 5 THEN t.run_length - 2 ELSE 0)]
      t == Loop(step, 1, Len(line), [run_length |-> 1, score |-> 0])
  IN  t.score + (IF t.run_length >= 5 THEN t.run_length - 2 ELSE 0)

pattern1 == <<True, False, True, True, True, False, True, False, False, False, False>>

pattern2 == <<False, False, False, False, True, False, True, True, True, False, True>>

\* QRMatrix.calculate_penalty_score
calculate_penalty_score(m) ==
  LET size == matrix_size(m)
      row_line(r) == [k \in 1..size |-> m[r][k - 1]]
      col_line(c) == [k \in 1..size |-> m[k - 1][c]]
      rule1 == SeqSum([k \in 1..size |-> run_score(row_line(k - 1))])
               + SeqSum([k \in 1..size |-> run_score(col_line(k - 1))])
      rule2 == 3 * Cardinality({rc \in (0..(size - 2)) \X (0..(size - 2)) :
                 /\ m[rc[1]][rc[2]] = m[rc[1]][rc[2] + 1]
                 /\ m[rc[1]][rc[2] + 1] = m[rc[1] + 1][rc[2]]
                 /\ m[rc[1] + 1][rc[2]] = m[rc[1] + 1][rc[2] + 1]})
      row_slice(r, c) == [i \in 1..11 |-> m[r][c + i - 1]]
      col_slice(r, c) == [i \in 1..11 |-> m[r + i - 1][c]]
      rule3 == 40 * Cardinality({rc \in (0..(size - 1)) \X (0..(size - 11)) :
                      row_slice(rc[1], rc[2]) = pattern1 \/ row_slice(rc[1], rc[2]) = pattern2})
               + 40 * Cardinality({rc \in (0..(size - 11)) \X (0..(size - 1)) :
                      col_slice(rc[1], rc[2]) = pattern1 \/ col_slice(rc[1], rc[2]) = pattern2})
      black_count == Cardinality({rc \in (0..(size - 1)) \X (0..(size - 1)) :
                                    m[rc[1]][rc[2]] = True})
      total_count == size * size
      percentage == (black_count * 100) \div total_count
      deviation == abs(percentage - 50)
  IN  rule1 + rule2 + rule3 + (deviation \div 5) * 10

-----------------------------------------------------------------------------
(* core.py / QR_GENERATE.py: QRCode                                        *)

\* fitting_versions reading the capacities of level L whatever the level asked for
fitting_versions_of_level_l(im, s, ecl) ==
  {v \in 1..6 : /\ v \in CapacityVersions
                /\ Len(s) <= capacity_of(QR_CAPACITY_TABLE[v]["L"], detect_mode(im, s))}

\* the versions the loop of _determine_version accepts
fitting_versions(im, s, ecl) ==
  {v \in 1..6 : /\ v \in CapacityVersions
                /\ Len(s) <= capacity_of(QR_CAPACITY_TABLE[v][ecl], detect_mode(im, s))}

\* raises ValueError("Data too long for supported versions")
_determine_version_raises(im, s, ecl) == fitting_versions(im, s, ecl) = {}

\* the loop returns the first version that fits
_determine_version(im, s, ecl) ==
  CHOOSE v \in fitting_versions(im, s, ecl) : \A w \in fitting_versions(im, s, ecl) : v <= w

\* _generate: the codewords of a bit list, 8 bits each, most significant first
to_codewords(bits) ==
  [k \in 1..((Len(bits) + 7) \div 8) |->
     SeqSum([j \in 1..8 |->
               LET p == 8 * (k - 1) + j
               IN  IF p <= Len(bits) THEN bits[p] * pow2(8 - j) ELSE 0])]

\* _generate: data_codewords_count
data_codewords_count(groups) == SeqSum([g \in DOMAIN groups |-> groups[g][1] * groups[g][2]])

\* _generate: the bits of the interleaved codewords, most significant first
to_bits(codewords) == Flatten([k \in DOMAIN codewords |-> bits_msb(codewords[k], 8)])

\* the blocks of the groups in creation order, as <<data_words, ecc_words>>
block_shapes(groups) ==
  Flatten([g \in DOMAIN groups |-> Repeat(<<groups[g][2], groups[g][3]>>, groups[g][1])])

\* the data codewords of every block: consecutive runs, padded with 0 past the end
make_data_blocks(groups, codewords) ==
  LET shapes == block_shapes(groups)
      start(b) == SeqSum([a \in 1..(b - 1) |-> shapes[a][1]])
  IN  [b \in DOMAIN shapes |->
         [t \in 1..shapes[b][1] |->
            IF start(b) + t <= Len(codewords) THEN codewords[start(b) + t] ELSE 0]]

make_ecc_blocks(im, groups, codewords) ==
  LET shapes == block_shapes(groups)
      data_blocks == make_data_blocks(groups, codewords)
  IN  [b \in DOMAIN shapes |-> rs_encode(im, data_blocks[b], shapes[b][2])]

\* interleave emitting the blocks one after the other
interleave_block_by_block(blocks) == Flatten(blocks)

\* for i in range(max_len): for block in blocks: if i < len(block): append block[i]
interleave(blocks) ==
  LET max_len == IF blocks = <<>> THEN 0 ELSE SetMax({Len(blocks[b]) : b \in DOMAIN blocks})
  IN  Flatten([i \in 1..max_len |->
                 Flatten([b \in DOMAIN blocks |->
                            IF i <= Len(blocks[b]) THEN <<blocks[b][i]>> ELSE <<>>])])

_apply_error_correction_and_interleave(im, v, ecl, codewords) ==
  LET groups == QR_CAPACITY_TABLE[v][ecl].groups
      data_blocks == make_data_blocks(groups, codewords)
      ecc_blocks == make_ecc_blocks(im, groups, codewords)
  IN  IF v = 1 THEN data_blocks[1] \o ecc_blocks[1]
      ELSE interleave(data_blocks) \o interleave(ecc_blocks)

\* the matrix _choose_best_mask scores for one mask, from the matrix after
\* QRMatrix(version) and place_data(data_bits): the package scores the masked data
\* alone, QR_GENERATE.py adds the format (and version) information first
test_matrix(im, placed, v, ecl, mask) ==
  LET masked == apply_mask(placed, v, mask)
  IN  IF im = "pkg" THEN masked
      ELSE LET with_format == add_format_info(im, masked, get_format_info(ecl, mask))
               with_version == IF v >= 7
                               THEN add_version_info(with_format, v, get_version_info(v))
                               ELSE with_format
           IN  _fill_remaining(with_version)

\* float('inf'): best_score before the first mask is scored
inf == -1

\* one pass of the loop of _choose_best_mask on (best_mask, best_score).  Every
\* pass builds QRMatrix(version) and places the same bits: placed is that matrix.
_choose_best_mask_step(im, placed, v, ecl, t, mask) ==
  LET score == calculate_penalty_score(test_matrix(im, placed, v, ecl, mask))
  IN  IF t.best_score = inf \/ score < t.best_score
      THEN [best_mask |-> mask, best_score |-> score]
      ELSE t

\* QRCode._choose_best_mask(data_bits)
_choose_best_mask(im, v, ecl, bits) ==
  LET placed == place_data(im, QRMatrix(im, v), v, bits)
      step(t, mask) == _choose_best_mask_step(im, placed, v, ecl, t, mask)
  IN  Loop(step, 0, 8, [best_mask |-> 0, best_score |-> inf]).best_mask

-----------------------------------------------------------------------------
(* The payloads and calls the model runs the program on.                   *)

Impls == {"pkg", "mono"}

\* longest run of one repeated character among the payloads
MaxRepeat == 2

\* longest string handed to detect_mode directly
MaxModeLen == 2

\* longest data block handed to ReedSolomonEncoder.encode directly
MaxBlockLen == 2

HELLO_WORLD == <<72, 69, 76, 76, 79, 32, 87, 79, 82, 76, 68>>

DIGITS_01234567 == <<48, 49, 50, 51, 52, 53, 54, 55>>

\* the characters with codes 0x00..0x10
BYTES_00_10 == [i \in 1..17 |-> i - 1]

\* 1,000 decimal digits
DIGITS_1000 == [i \in 1..1000 |-> 48 + (i % 10)]

\* a superscript two: a digit for str.isdigit() that int() rejects
SUPERSCRIPT_TWO == <<178>>

\* 17 times e-acute: one character, two UTF-8 bytes each
E_ACUTE_17 == Repeat(233, 17)

Payloads ==
  {HELLO_WORLD, DIGITS_01234567, <<>>, BYTES_00_10, DIGITS_1000, SUPERSCRIPT_TWO, E_ACUTE_17}
  \cup {Repeat(233, n) : n \in 1..MaxRepeat}

\* 0 9 A a space : ! e-acute sharp-s superscript-two arabic-indic-three st-ligature
ModeChars == {48, 57, 65, 97, 32, 58, 33, 233, 223, 178, 1635, 64262}

\* all sequences over S of length lo..hi
SeqsOf(S, lo, hi) == UNION {[1..n -> S] : n \in lo..hi}

BlockBytes == {0, 1, 2, 255}

\* longest payload handed to _determine_version directly
MaxCountLen == 323

\* 0 A ! : a digit, an alphanumeric character, a character of neither kind
CountChars == {48, 65, 33}

\* the payload lengths at the edges of the capacity table: every capacity and one more
CountLengths ==
  {n \in 0..MaxCountLen :
     \E v \in CapacityVersions : \E e \in ECLNames : \E m \in ModeNames :
        n \in {capacity_of(QR_CAPACITY_TABLE[v][e], m),
                capacity_of(QR_CAPACITY_TABLE[v][e], m) + 1}}

\* multipliers of the codeword patterns handed to the interleaver
InterleaveFactors == {1, 37}

\* as many data codewords as the entry (v, e) holds: k, 2k, 3k, ... modulo 256
codeword_pattern(v, e, k) ==
  [i \in 1..data_codewords_count(QR_CAPACITY_TABLE[v][e].groups) |-> (k * i) % 256]

\* bit streams handed to place_data for a version-v matrix: none, nine dark bits,
\* and the 8 * total_codewords bits of a whole symbol, dark and light in turn
PlaceStreams(v) ==
  {<<>>, Repeat(1, 9), [i \in 1..(8 * QR_CAPACITY_TABLE[v]["L"].total_codewords) |-> i % 2]}

\* most codewords of a total_bits handed to add_terminator_and_padding directly
MaxPadBytes == 4

\* total_bits is 8 * total_codewords in _generate
PadTotals == {8 * k : k \in 1..MaxPadBytes}

\* longest digit string handed to encode_numeric directly
MaxNumericLen == 5

\* the digits 0, 1 and 9
NumericChars == {48, 49, 57}

\* second operands of the direct calls of GaloisField.mul
GfOperands == {0, 1, 2, 3, 29, 128, 142, 255}

NoCall == [op |-> "none", args |-> <<>>]

Calls ==
  {[op |-> "get_format_info", args |-> <<e, m>>] : e \in ECLNames, m \in 0..7}
  \cup {[op |-> "get_version_info", args |-> <<v>>] : v \in 0..41}
  \cup {[op |-> "detect_mode", args |-> <<im, s>>] :
           im \in Impls, s \in SeqsOf(ModeChars, 0, MaxModeLen)}
  \cup {[op |-> "rs_encode", args |-> <<im, d, e>>] :
           im \in Impls, d \in SeqsOf(BlockBytes, 1, MaxBlockLen), e \in {7, 10}}
  \cup {[op |-> "_determine_version", args |-> <<im, Repeat(c, n), e>>] :
           im \in Impls, c \in CountChars, n \in CountLengths, e \in ECLNames}
  \cup {[op |-> "_get_generator_polynomial", args |-> <<e>>] : e \in 1..30}
  \cup {[op |-> "_apply_error_correction_and_interleave",
         args |-> <<im, v, e, codeword_pattern(v, e, k)>>] :
           im \in Impls, v \in CapacityVersions, e \in ECLNames, k \in InterleaveFactors}
  \cup UNION {{[op |-> "add_terminator_and_padding", args |-> <<Repeat(1, n), total>>] :
                  n \in 0..total} : total \in PadTotals}
  \cup {[op |-> "mul", args |-> <<a, b>>] : a \in 0..255, b \in GfOperands}
  \cup {[op |-> "inverse", args |-> <<x>>] : x \in 0..255}
  \cup {[op |-> "encode_numeric", args |-> <<s>>] : s \in SeqsOf(NumericChars, 0, MaxNumericLen)}
  \cup UNION {{[op |-> "place_data", args |-> <<im, v, bits>>] :
                  im \in Impls, bits \in PlaceStreams(v)} : v \in CapacityVersions}

-----------------------------------------------------------------------------
(* QRCode(data, error_correction): the constructor and _generate, one      *)
(* action per statement group.                                             *)

Idle == /\ call = NoCall
        /\ ret = <<>>

Init ==
  /\ impl \in Impls
  /\ data \in Payloads
  /\ error_correction \in ECLNames
  /\ pc = "new"
  /\ version = 0
  /\ mode = ""
  /\ encoded_data = <<>>
  /\ padded_data = <<>>
  /\ data_codewords = <<>>
  /\ data_bits = <<>>
  /\ mask_pattern = 0
  /\ matrix = <<>>
  /\ error = ""
  /\ Idle

\* self.version = self._determine_version()
DetermineVersion ==
  /\ pc = "new"
  /\ IF _determine_version_raises(impl, data, error_correction)
     THEN /\ pc' = "raised"
          /\ error' = "ValueError: Data too long for supported versions"
          /\ UNCHANGED version
     ELSE /\ pc' = "version"
          /\ version' = _determine_version(impl, data, error_correction)
          /\ UNCHANGED error
  /\ UNCHANGED <<impl, data, error_correction, mode, encoded_data, padded_data,
                 data_codewords, data_bits, mask_pattern, matrix, call, ret>>

\* self.mode = DataEncoder.detect_mode(data); self.mask_pattern = 0; self.matrix = None
DetectMode ==
  /\ pc = "version"
  /\ pc' = "mode"
  /\ mode' = detect_mode(impl, data)
  /\ mask_pattern' = 0
  /\ matrix' = <<>>
  /\ UNCHANGED <<impl, data, error_correction, version, encoded_data, padded_data,
                 data_codewords, data_bits, error, call, ret>>

\* encoded_data = DataEncoder.encode(self.data, self.mode, self.version)
Encode ==
  /\ pc = "mode"
  /\ IF encode_raises(mode, data)
     THEN /\ pc' = "raised"
          /\ error' = "ValueError: invalid literal for int()"
          /\ UNCHANGED encoded_data
     ELSE /\ pc' = "encoded"
          /\ encoded_data' = encode(impl, data, mode, version)
          /\ UNCHANGED error
  /\ UNCHANGED <<impl, data, error_correction, version, mode, padded_data,
                 data_codewords, data_bits, mask_pattern, matrix, call, ret>>

\* padded_data = DataEncoder.add_terminator_and_padding(encoded_data, total_bits)
Pad ==
  /\ pc = "encoded"
  /\ pc' = "padded"
  /\ LET capacity_info == QR_CAPACITY_TABLE[version][error_correction]
         total_bits == capacity_info.total_codewords * 8
     IN  padded_data' = add_terminator_and_padding(encoded_data, total_bits)
  /\ UNCHANGED <<impl, data, error_correction, version, mode, encoded_data,
                 data_codewords, data_bits, mask_pattern, matrix, error, call, ret>>

\* actual_data_codewords = data_codewords[:data_codewords_count]
Codewords ==
  /\ pc = "padded"
  /\ pc' = "codewords"
  /\ LET capacity_info == QR_CAPACITY_TABLE[version][error_correction]
     IN  data_codewords' = Slice(to_codewords(padded_data), 0,
                                 data_codewords_count(capacity_info.groups))
  /\ UNCHANGED <<impl, data, error_correction, version, mode, encoded_data, padded_data,
                 data_bits, mask_pattern, matrix, error, call, ret>>

\* interleaved = self._apply_error_correction_and_interleave(...); data_bits = its bits
ErrorCorrection ==
  /\ pc = "codewords"
  /\ LET groups == QR_CAPACITY_TABLE[version][error_correction].groups
     IN  IF \E g \in DOMAIN groups : rs_encode_raises(impl, groups[g][3])
         THEN /\ pc' = "raised"
              /\ error' = "ValueError: No generator polynomial"
              /\ UNCHANGED data_bits
         ELSE /\ pc' = "interleaved"
              /\ data_bits' = to_bits(_apply_error_correction_and_interleave(
                                        impl, version, error_correction, data_codewords))
              /\ UNCHANGED error
  /\ UNCHANGED <<impl, data, error_correction, version, mode, encoded_data, padded_data,
                 data_codewords, mask_pattern, matrix, call, ret>>

\* self.mask_pattern = self._choose_best_mask(data_bits)
ChooseBestMask ==
  /\ pc = "interleaved"
  /\ pc' = "mask_chosen"
  /\ mask_pattern' = _choose_best_mask(impl, version, error_correction, data_bits)
  /\ UNCHANGED <<impl, data, error_correction, version, mode, encoded_data, padded_data,
                 data_codewords, data_bits, matrix, error, call, ret>>

\* self.matrix = QRMatrix(self.version)
CreateMatrix ==
  /\ pc = "mask_chosen"
  /\ pc' = "matrix"
  /\ matrix' = QRMatrix(impl, version)
  /\ UNCHANGED <<impl, data, error_correction, version, mode, encoded_data, padded_data,
                 data_codewords, data_bits, mask_pattern, error, call, ret>>

\* self.matrix.place_data(data_bits); QR_GENERATE.py then calls _fill_remaining once more
PlaceData ==
  /\ pc = "matrix"
  /\ pc' = "placed"
  /\ LET placed == place_data(impl, matrix, version, data_bits)
     IN  matrix' = IF impl = "mono" THEN _fill_remaining(placed) ELSE placed
  /\ UNCHANGED <<impl, data, error_correction, version, mode, encoded_data, padded_data,
                 data_codewords, data_bits, mask_pattern, error, call, ret>>

\* self.matrix.apply_mask(self.mask_pattern)
ApplyMask ==
  /\ pc = "placed"
  /\ pc' = "masked"
  /\ matrix' = apply_mask(matrix, version, mask_pattern)
  /\ UNCHANGED <<impl, data, error_correction, version, mode, encoded_data, padded_data,
                 data_codewords, data_bits, mask_pattern, error, call, ret>>

\* add_format_info(get_format_info(...)) and, from version 7 on, add_version_info
AddFormatInfo ==
  /\ pc = "masked"
  /\ pc' = "done"
  /\ LET format_bits == get_format_info(error_correction, mask_pattern)
         with_format == add_format_info(impl, matrix, format_bits)
     IN  matrix' = IF version >= 7
                   THEN add_version_info(with_format, version, get_version_info(version))
                   ELSE with_format
  /\ UNCHANGED <<impl, data, error_correction, version, mode, encoded_data, padded_data,
                 data_codewords, data_bits, mask_pattern, error, call, ret>>

Next ==
  \/ DetermineVersion
  \/ DetectMode
  \/ Encode
  \/ Pad
  \/ Codewords
  \/ ErrorCorrection
  \/ ChooseBestMask
  \/ CreateMatrix
  \/ PlaceData
  \/ ApplyMask
  \/ AddFormatInfo

Spec == Init /\ [][Next]_vars

-----------------------------------------------------------------------------
(* Direct calls of single functions: Init draws the call, the action of    *)
(* the function returns its value in ret.                                  *)

InitFn ==
  /\ call \in Calls
  /\ ret = <<>>
  /\ impl = "pkg"
  /\ data = <<>>
  /\ error_correction = "M"
  /\ pc = "idle"
  /\ version = 0
  /\ mode = ""
  /\ encoded_data = <<>>
  /\ padded_data = <<>>
  /\ data_codewords = <<>>
  /\ data_bits = <<>>
  /\ mask_pattern = 0
  /\ matrix = <<>>
  /\ error = ""

Returned(op) == call.op = op /\ ret # <<>>

CallGetFormatInfo ==
  /\ call.op = "get_format_info"
  /\ ret = <<>>
  /\ ret' = <<get_format_info(call.args[1], call.args[2])>>
  /\ UNCHANGED <<call, pipeVars>>

CallGetVersionInfo ==
  /\ call.op = "get_version_info"
  /\ ret = <<>>
  /\ ret' = <<get_version_info(call.args[1])>>
  /\ UNCHANGED <<call, pipeVars>>

CallDetectMode ==
  /\ call.op = "detect_mode"
  /\ ret = <<>>
  /\ ret' = <<detect_mode(call.args[1], call.args[2])>>
  /\ UNCHANGED <<call, pipeVars>>

CallRsEncode ==
  /\ call.op = "rs_encode"
  /\ ret = <<>>
  /\ ~rs_encode_raises(call.args[1], call.args[3])
  /\ ret' = <<rs_encode(call.args[1], call.args[2], call.args[3])>>
  /\ UNCHANGED <<call, pipeVars>>

\* QRCode._determine_version() of a QRCode with the data and level of the call
CallDetermineVersion ==
  /\ call.op = "_determine_version"
  /\ ret = <<>>
  /\ error = ""
  /\ IF _determine_version_raises(call.args[1], call.args[2], call.args[3])
     THEN /\ error' = "ValueError: Data too long for supported versions"
          /\ UNCHANGED ret
     ELSE /\ ret' = <<_determine_version(call.args[1], call.args[2], call.args[3])>>
          /\ UNCHANGED error
  /\ UNCHANGED <<call, impl, pc, data, error_correction, version, mode, encoded_data,
                 padded_data, data_codewords, data_bits, mask_pattern, matrix>>

\* ReedSolomonEncoder()._get_generator_polynomial(ecc_count) of QR_GENERATE.py
CallGetGeneratorPolynomial ==
  /\ call.op = "_get_generator_polynomial"
  /\ ret = <<>>
  /\ ret' = <<_get_generator_polynomial(GaloisField, call.args[1])>>
  /\ UNCHANGED <<call, pipeVars>>

\* QRCode._apply_error_correction_and_interleave(data_codewords) of a QRCode with
\* the version and level of the call
CallInterleave ==
  /\ call.op = "_apply_error_correction_and_interleave"
  /\ ret = <<>>
  /\ error = ""
  /\ LET groups == QR_CAPACITY_TABLE[call.args[2]][call.args[3]].groups
     IN  IF \E g \in DOMAIN groups : rs_encode_raises(call.args[1], groups[g][3])
         THEN /\ error' = "ValueError: No generator polynomial"
              /\ UNCHANGED ret
         ELSE /\ ret' = <<_apply_error_correction_and_interleave(
                            call.args[1], call.args[2], call.args[3], call.args[4])>>
              /\ UNCHANGED error
  /\ UNCHANGED <<call, impl, pc, data, error_correction, version, mode, encoded_data,
                 padded_data, data_codewords, data_bits, mask_pattern, matrix>>

\* QRMatrix(version).place_data(data_bits); ret holds the matrix it leaves
CallPlaceData ==
  /\ call.op = "place_data"
  /\ ret = <<>>
  /\ ret' = <<place_data(call.args[1], QRMatrix(call.args[1], call.args[2]),
                         call.args[2], call.args[3])>>
  /\ UNCHANGED <<call, pipeVars>>

CallAddTerminatorAndPadding ==
  /\ call.op = "add_terminator_and_padding"
  /\ ret = <<>>
  /\ ret' = <<add_terminator_and_padding(call.args[1], call.args[2])>>
  /\ UNCHANGED <<call, pipeVars>>

CallEncodeNumeric ==
  /\ call.op = "encode_numeric"
  /\ ret = <<>>
  /\ ~encode_numeric_raises(call.args[1])
  /\ ret' = <<encode_numeric(call.args[1])>>
  /\ UNCHANGED <<call, pipeVars>>

\* GaloisField().mul(a, b)
CallMul ==
  /\ call.op = "mul"
  /\ ret = <<>>
  /\ ret' = <<mul(GaloisField, call.args[1], call.args[2])>>
  /\ UNCHANGED <<call, pipeVars>>

\* GaloisField().inverse(x)
CallInverse ==
  /\ call.op = "inverse"
  /\ ret = <<>>
  /\ error = ""
  /\ IF inverse_raises(call.args[1])
     THEN /\ error' = "ValueError: Zero has no inverse"
          /\ UNCHANGED ret
     ELSE /\ ret' = <<inverse(GaloisField, call.args[1])>>
          /\ UNCHANGED error
  /\ UNCHANGED <<call, impl, pc, data, error_correction, version, mode, encoded_data,
                 padded_data, data_codewords, data_bits, mask_pattern, matrix>>

NextFn ==
  \/ CallGetFormatInfo
  \/ CallGetVersionInfo
  \/ CallDetectMode
  \/ CallRsEncode
  \/ CallDetermineVersion
  \/ CallGetGeneratorPolynomial
  \/ CallInterleave
  \/ CallPlaceData
  \/ CallAddTerminatorAndPadding
  \/ CallEncodeNumeric
  \/ CallMul
  \/ CallInverse

SpecFn == InitFn /\ [][NextFn]_vars

-----------------------------------------------------------------------------
(* Properties.                                                             *)

HasMatrix == pc \in {"matrix", "placed", "masked", "done"}

PastPad == pc \in {"padded", "codewords", "interleaved", "mask_chosen",
                   "matrix", "placed", "masked", "done"}

\* the cell of a finder pattern at offset (i, j) from its top-left corner, i, j in 0..6:
\* dark centre of 3x3, light ring, dark ring
finder_cell(i, j) ==
  LET d == IF abs(i - 3) > abs(j - 3) THEN abs(i - 3) ELSE abs(j - 3)
  IN  IF d = 2 THEN False ELSE True

\* the cells of the three one-module separators of a matrix of side n
separator_cells(n) ==
  {<<7, c>> : c \in 0..7} \cup {<<r, 7>> : r \in 0..7}
  \cup {<<7, c>> : c \in (n - 8)..(n - 1)} \cup {<<r, n - 8>> : r \in 0..7}
  \cup {<<n - 8, c>> : c \in 0..7} \cup {<<r, 7>> : r \in (n - 8)..(n - 1)}

\* C1: in every matrix the program holds, from the constructor to the finished
\* symbol, the three finder patterns stand at the top-left, top-right and
\* bottom-left corners and their separators are light.
C1_FindersIntact ==
  HasMatrix =>
    LET n == size_of(version)
    IN  /\ \A i \in 0..6 : \A j \in 0..6 :
              /\ matrix[i][j] = finder_cell(i, j)
              /\ matrix[i][n - 7 + j] = finder_cell(i, j)
              /\ matrix[n - 7 + i][j] = finder_cell(i, j)
        /\ \A rc \in separator_cells(n) : matrix[rc[1]][rc[2]] = False

\* C2: after place_data every bit of the stream sits in a cell of its own: the
\* cells written are at least as many as the bits, no cell is written twice,
\* every written cell was unset before, and the k-th cell holds the k-th bit.
C2_EveryBitPlacedOnce ==
  pc = "placed" =>
    LET order == visits(impl, version)
        before == QRMatrix(impl, version)
    IN  /\ Len(order) >= Len(data_bits)
        /\ \A a \in DOMAIN order : \A b \in DOMAIN order : order[a] = order[b] => a = b
        /\ \A k \in DOMAIN order : before[order[k][1]][order[k][2]] = None
        /\ \A k \in DOMAIN order :
              k <= Len(data_bits) => matrix[order[k][1]][order[k][2]] = data_bits[k]

\* the division of section 4.2: m = d followed by e zeros; for i = 0..k-1, c = m[i],
\* if c # 0 then m[i+j] ^= mul(g[j], c) for j = 0..e; the result is m[k..k+e)
rs_division(d, e) ==
  LET g == GENERATOR_POLYNOMIALS[e]
      step(m, i) ==
        LET c == m[i + 1]
        IN  IF c = 0 THEN m
            ELSE [p \in 1..Len(m) |->
                    IF p - 1 - i \in 0..e THEN xor(m[p], mul(GaloisField, g[(p - 1 - i) + 1], c)) ELSE m[p]]
      m == Loop(step, 0, Len(d), d \o Repeat(0, e))
  IN  [p \in 1..e |-> m[Len(d) + p]]

\* C3: ReedSolomonEncoder.encode(data, e) returns the e bytes of the remainder
\* of the systematic division of section 4.2.
C3_RsRemainder ==
  Returned("rs_encode") =>
    /\ Len(ret[1]) = call.args[3]
    /\ ret[1] = rs_division(call.args[2], call.args[3])

\* copy A of the format information: row 8 columns 0..5, 7, 8, then column 8 rows 7, 5..0
format_copy_a(m) ==
  [k \in 1..8 |-> m[8][<<0, 1, 2, 3, 4, 5, 7, 8>>[k]]]
  \o [k \in 1..7 |-> m[<<7, 5, 4, 3, 2, 1, 0>>[k]][8]]

\* copy B: column 8 rows n-1..n-7, then row 8 columns n-8..n-1
format_copy_b(m) ==
  LET n == matrix_size(m)
  IN  [k \in 1..7 |-> m[n - k][8]] \o [k \in 1..8 |-> m[8][n - 9 + k]]

Reverse(s) == [k \in 1..Len(s) |-> s[Len(s) + 1 - k]]

\* C4: in the finished matrix the two copies of the format information are equal
\* and spell the 15-bit format word of (level, mask), read from either end.
C4_FormatCopies ==
  pc = "done" =>
    LET word == bits_msb(get_format_info(error_correction, mask_pattern), 15)
    IN  /\ format_copy_a(matrix) = format_copy_b(matrix)
        /\ format_copy_a(matrix) \in {word, Reverse(word)}

\* C5: a payload of 1,000 decimal digits at level L is encoded, in Numeric
\* mode: the constructor does not end with the data-too-long error.
C5_ThousandDigitsEncode ==
  (data = DIGITS_1000 /\ error_correction = "L" /\ pc # "new") =>
    /\ pc # "raised"
    /\ pc # "version" => mode = "NUMERIC"

\* the penalty of the candidate for one mask: data placed, mask applied, format
\* (and version) information embedded
candidate_penalty(im, v, ecl, bits, mask) ==
  LET masked == apply_mask(place_data(im, QRMatrix(im, v), v, bits), v, mask)
      with_format == add_format_info(im, masked, get_format_info(ecl, mask))
  IN  calculate_penalty_score(IF v >= 7
                              THEN add_version_info(with_format, v, get_version_info(v))
                              ELSE with_format)

\* C6: the stored mask has the lowest penalty among the eight candidates that
\* carry their format information, and the lowest index among those with that penalty.
C6_LowestPenaltyMask ==
  pc = "done" =>
    LET score == [mask \in 0..7 |->
                    candidate_penalty(impl, version, error_correction, data_bits, mask)]
    IN  /\ \A other \in 0..7 : score[mask_pattern] <= score[other]
        /\ \A other \in 0..(mask_pattern - 1) : score[other] > score[mask_pattern]

\* the mode of section 4.3: Numeric for a non-empty string of the digits 0-9, else
\* Alphanumeric if every character upper-cases to one of the 45 characters, else Byte
narrowest_mode(s) ==
  IF s # <<>> /\ \A i \in DOMAIN s : s[i] \in 48..57 THEN "NUMERIC"
  ELSE IF \A i \in DOMAIN s : \E a \in DOMAIN ALPHANUMERIC_CHARS :
            char_upper(s[i]) = <<ALPHANUMERIC_CHARS[a]>> THEN "ALPHANUMERIC"
  ELSE "BYTE"

\* C7: detect_mode returns Numeric for digits only, else Alphanumeric for the
\* 45-character alphabet after upper-casing, else Byte, and never Kanji.
C7_DetectMode ==
  Returned("detect_mode") =>
    /\ ret[1] = narrowest_mode(call.args[2])
    /\ ret[1] # "KANJI"

\* the number of bits of x
RECURSIVE bit_length(_)
bit_length(x) == IF x = 0 THEN 0 ELSE 1 + bit_length(x \div 2)

\* the remainder of the polynomial x divided by g over GF(2)
RECURSIVE gf2_remainder(_, _)
gf2_remainder(x, g) ==
  IF bit_length(x) < bit_length(g) THEN x
  ELSE gf2_remainder(xor(x, g * pow2(bit_length(x) - bit_length(g))), g)

\* C8: get_format_info(level, mask) is ((d << 10) | r) XOR 0x5412 with
\* d = (level code << 3) | mask and r the remainder of d * x^10 by 0b10100110111.
C8_FormatInfoBch ==
  Returned("get_format_info") =>
    LET d == ErrorCorrectionLevel[call.args[1]] * 8 + call.args[2]
        r == gf2_remainder(d * 1024, 1335)
    IN  ret[1] = xor(d * 1024 + r, 21522)

C8_Witness == Returned("get_format_info") /\ call.args = <<"Q", 5>>

\* C9: for every version v in 7..40, get_version_info(v) has v in its high 6
\* bits and the remainder of v * x^12 by 0b1111100100101 in its low 12 bits.
C9_VersionInfoGolay ==
  (Returned("get_version_info") /\ call.args[1] \in 7..40) =>
    ret[1] = call.args[1] * 4096 + gf2_remainder(call.args[1] * 4096, 7973)

\* C10: the padded bit sequence of every encoded payload has exactly
\* 8 * total_codewords bits of the selected (version, level).
C10_PaddedLength ==
  PastPad =>
    Len(padded_data) = 8 * QR_CAPACITY_TABLE[version][error_correction].total_codewords

\* pad bytes were added to reach the length
C10_Witness ==
  /\ pc = "padded"
  /\ Len(padded_data) >= Len(encoded_data) + 4 + 7 + 16

\* the number a bit list spells, most significant bit first
bits_value(bs) == SeqSum([k \in 1..Len(bs) |-> bs[k] * pow2(Len(bs) - k)])

\* C11: for every payload version selection accepts, the character count is
\* below 2^w, w the width of the count field for the detected mode and the
\* selected version, and the count field DataEncoder.encode writes spells it.
C11_CountFits ==
  Returned("_determine_version") =>
    LET im == call.args[1]
        s  == call.args[2]
        v  == ret[1]
        m  == detect_mode(im, s)
        w  == get_char_count_bits(m, v)
    IN  /\ Len(s) < pow2(w)
        /\ bits_value(SubSeq(encode(im, s, m, v), 5, 4 + w)) = Len(s)

\* the longest numeric payload the table accepts was selected a version
C11_Witness ==
  /\ Returned("_determine_version")
  /\ call.args[2] = Repeat(48, 322)
  /\ ret[1] = 6

\* C12: every ecc_words value of the capacity table is a key of
\* GENERATOR_POLYNOMIALS, and no encode ends with the missing-polynomial error.
C12_GeneratorTabulated ==
  /\ \A v \in CapacityVersions : \A e \in ECLNames :
        \A g \in DOMAIN QR_CAPACITY_TABLE[v][e].groups :
           QR_CAPACITY_TABLE[v][e].groups[g][3] \in DOMAIN GENERATOR_POLYNOMIALS
  /\ error # "ValueError: No generator polynomial"

\* the package encoded the two blocks of a version-3 symbol
C12_Witness ==
  /\ pc = "interleaved"
  /\ impl = "pkg"
  /\ version = 3

\* C13: on the matrix place_data leaves, and on the masked one, apply_mask(m)
\* applied twice gives the matrix back, for every m in 0..7.
C13_MaskInvolution ==
  pc \in {"placed", "masked"} =>
    \A m \in 0..7 :
       apply_mask(apply_mask(matrix, version, m), version, m) = matrix

\* the chosen mask was applied and changed the matrix
C13_Witness ==
  /\ pc = "masked"
  /\ apply_mask(matrix, version, mask_pattern) # matrix

\* the predicates of the table of section 4.7
mask_predicate(mask, r, c) ==
  CASE mask = 0 -> (r + c) % 2 = 0
    [] mask = 1 -> r % 2 = 0
    [] mask = 2 -> c % 3 = 0
    [] mask = 3 -> (r + c) % 3 = 0
    [] mask = 4 -> ((r \div 2) + (c \div 3)) % 2 = 0
    [] mask = 5 -> ((r * c) % 2) + ((r * c) % 3) = 0
    [] mask = 6 -> (((r * c) % 2) + ((r * c) % 3)) % 2 = 0
    [] mask = 7 -> (((r + c) % 2) + ((r * c) % 3)) % 2 = 0

\* the alignment centres of section 4.5: the pairs of tabulated coordinates
\* that are not within 5 of a finder's centre
alignment_centre(v, a, b) ==
  LET n == 4 * v + 17
      near(fr, fc) == abs(a - fr) <= 5 /\ abs(b - fc) <= 5
  IN  ~ (near(3, 3) \/ near(n - 4, 3) \/ near(3, n - 4))

\* the function cells of sections 4.5 and 4.9 in a symbol of version v: finders
\* with their separators, timing patterns, alignment patterns, dark module and
\* the two copies of the format information
function_cell(v, r, c) ==
  LET n == 4 * v + 17
      centres == alignment_positions(v)
  IN  \/ r <= 7 /\ c <= 7
      \/ r <= 7 /\ c >= n - 8
      \/ r >= n - 8 /\ c <= 7
      \/ r = 6 \/ c = 6
      \/ \E a \in DOMAIN centres : \E b \in DOMAIN centres :
            /\ alignment_centre(v, centres[a], centres[b])
            /\ abs(r - centres[a]) <= 2 /\ abs(c - centres[b]) <= 2
      \/ r = n - 8 /\ c = 8
      \/ r = 8 /\ (c <= 8 \/ c >= n - 8)
      \/ c = 8 /\ (r <= 8 \/ r >= n - 7)

\* C14: apply_mask(m) inverts a cell exactly when it is a data cell (a cell that
\* is no finder, separator, timing, alignment, dark-module or format-area cell)
\* and the predicate of mask m holds there, and leaves every function cell as
\* it was.
C14_MaskFrame ==
  pc = "placed" =>
    \A m \in 0..7 :
       LET after == apply_mask(matrix, version, m)
       IN  \A r \in DOMAIN matrix : \A c \in DOMAIN matrix[r] :
              /\ after[r][c] # matrix[r][c]
                    <=> (~function_cell(version, r, c) /\ mask_predicate(m, r, c))
              /\ after[r][c] # matrix[r][c] => after[r][c] = py_not(matrix[r][c])
              /\ function_cell(version, r, c) => after[r][c] = matrix[r][c]

\* C15: when the constructor has returned, every cell of the matrix is True or
\* False; no cell is None, the format cells and the cells place_data never
\* reached included.
C15_NoUnsetCell ==
  pc = "done" =>
    \A r \in DOMAIN matrix : \A c \in DOMAIN matrix[r] : matrix[r][c] \in {True, False}

\* a finished version-1 symbol: (8,10) is reached neither by place_data nor by
\* add_format_info, (8,2) is a format cell
C15_Witness ==
  /\ pc = "done"
  /\ version = 1
  /\ ~_is_data_cell(version, 8, 10)
  /\ matrix[8][10] = False
  /\ matrix[8][2] \in {True, False}

\* C16: when the constructor has returned, the matrix has 4 * version + 17 rows
\* of 4 * version + 17 cells each, and get_size() is that number.
C16_SquareOfVersionSize ==
  pc = "done" =>
    /\ DOMAIN matrix = 0..(4 * version + 16)
    /\ \A r \in DOMAIN matrix : DOMAIN matrix[r] = 0..(4 * version + 16)
    /\ get_size(version) = 4 * version + 17
    /\ get_size(version) = Cardinality(DOMAIN matrix)

\* a finished symbol of a version above 1
C16_Witness ==
  /\ pc = "done"
  /\ version = 3
  /\ Cardinality(DOMAIN matrix) = 29

\* C17: QRCode("HELLO WORLD", Q) ends with version 1, mode Alphanumeric, a
\* matrix of size 21 and mask 5.
C17_HelloWorld ==
  (pc = "done" /\ data = HELLO_WORLD /\ error_correction = "Q") =>
    /\ version = 1
    /\ mode = "ALPHANUMERIC"
    /\ Cardinality(DOMAIN matrix) = 21
    /\ get_size(version) = 21
    /\ mask_pattern = 5

\* C18 as stated: QRCode of the 17 characters with codes 0x00..0x10 at H ends
\* with version 1, mode Byte and a matrix of size 21.
C18_Bytes17Version1 ==
  (pc = "done" /\ data = BYTES_00_10 /\ error_correction = "H") =>
    /\ version = 1
    /\ mode = "BYTE"
    /\ Cardinality(DOMAIN matrix) = 21

\* C18 amended: QRCode of the 17 characters with codes 0x00..0x10 at H succeeds
\* and ends with version 3, mode Byte and a matrix of size 29 (the byte
\* capacities at H are 7 in version 1, 14 in version 2, 24 in version 3).
C18_Bytes17Version3 ==
  (data = BYTES_00_10 /\ error_correction = "H") =>
    /\ pc # "raised"
    /\ pc \notin {"new"} => version = 3
    /\ pc \notin {"new", "version"} => mode = "BYTE"
    /\ pc = "done" => (Cardinality(DOMAIN matrix) = 29 /\ get_size(version) = 29)

\* the constructor has returned for the 17 characters at H
C18_Witness ==
  /\ pc = "done"
  /\ data = BYTES_00_10
  /\ error_correction = "H"
  /\ Len(data) = 17

\* the coefficients, highest degree first, of the product of (x - alpha^i) for
\* i = 0..e-1 over GF(2^8), alpha = 2 (minus is plus in characteristic 2)
generator_product(e) ==
  LET gf == GaloisField
      times(g, i) == _multiply_polynomials(gf, g, <<1, gf.exp_table[i]>>)
  IN  Loop(times, 0, e, <<1>>)

\* C19: for every key e of GENERATOR_POLYNOMIALS the tabulated sequence has
\* e + 1 coefficients, starts with 1 and is the product of (x - alpha^i),
\* i = 0..e-1.
C19_GeneratorIsProduct ==
  (Returned("_get_generator_polynomial") /\ call.args[1] \in DOMAIN GENERATOR_POLYNOMIALS) =>
    /\ ret[1] = GENERATOR_POLYNOMIALS[call.args[1]]
    /\ Len(ret[1]) = call.args[1] + 1
    /\ ret[1][1] = 1
    /\ ret[1] = generator_product(call.args[1])

\* the right columns of the two-column pairs of section 4.6 in a symbol of side
\* n: n-1, n-3, ..., 8, then 5, 3, 1 (column 6 belongs to no pair)
pair_right_columns(n) == [k \in 1..((n - 7) \div 2) |-> n + 1 - 2 * k] \o <<5, 3, 1>>

\* the cells in the order of section 4.6: pair by pair from the right, upward on
\* the rightmost pair, downward on the next and so on, in every row the right
\* cell before the left one
zigzag(n) ==
  LET rights == pair_right_columns(n)
      rows(k) == IF k % 2 = 1 THEN [i \in 1..n |-> n - i] ELSE [i \in 1..n |-> i - 1]
  IN  Flatten([k \in DOMAIN rights |->
        Flatten([i \in 1..n |-> << <<rows(k)[i], rights[k]>>, <<rows(k)[i], rights[k] - 1>> >>])])

\* C20: the cells place_data writes, in the order it writes them, are the cells
\* it accepts taken in the order of section 4.6: column pairs (n-1,n-2), ...,
\* (8,7), (5,4), (3,2), (1,0), upward on the rightmost pair and alternating from
\* pair to pair, right column of the pair before the left one.
C20_ZigzagOrder ==
  pc = "placed" =>
    LET accepts(rc) == _is_data_cell(version, rc[1], rc[2])
    IN  visits(impl, version) = SelectSeq(zigzag(4 * version + 17), accepts)

\* C21: for every (version, level) of the capacity table the stream
\* _apply_error_correction_and_interleave returns has total_codewords
\* codewords, which is the sum over the groups of
\* num_blocks * (data_words + ecc_words).
C21_StreamLength ==
  Returned("_apply_error_correction_and_interleave") =>
    LET info == QR_CAPACITY_TABLE[call.args[2]][call.args[3]]
    IN  /\ Len(ret[1]) = info.total_codewords
        /\ SeqSum([g \in DOMAIN info.groups |->
                     info.groups[g][1] * (info.groups[g][2] + info.groups[g][3])])
             = info.total_codewords

\* the number of cells of a version-v symbol that _is_data_cell accepts
accepted_cells(v) ==
  Cardinality({rc \in (0..(4 * v + 16)) \X (0..(4 * v + 16)) : _is_data_cell(v, rc[1], rc[2])})

\* C22: in every version the encoder produces, _is_data_cell accepts at least
\* 8 * total_codewords cells and at most 7 more, so place_data has a cell for
\* every bit of the interleaved stream.
C22_CellsForEveryBit ==
  pc = "placed" =>
    LET total == QR_CAPACITY_TABLE[version][error_correction].total_codewords
    IN  /\ accepted_cells(version) >= 8 * total
        /\ accepted_cells(version) <= 8 * total + 7
        /\ accepted_cells(version) >= Len(data_bits)

\* the blocks' codewords column by column: for i = 1, 2, ... the i-th codeword
\* of every block that has one, blocks in creation order
column_wise(blocks) ==
  LET longest == SetMax({0} \cup {Len(blocks[b]) : b \in DOMAIN blocks})
      column(i) ==
        LET has(b) == i <= Len(blocks[b])
            owners == SelectSeq([b \in 1..Len(blocks) |-> b], has)
        IN  [k \in DOMAIN owners |-> blocks[owners[k]][i]]
  IN  Flatten([i \in 1..longest |-> column(i)])

\* C23: the stream is the data codewords of all blocks column-wise followed by
\* the ECC codewords of all blocks column-wise, every codeword of every block
\* once; block b holds the run of data_words codewords that follows the runs
\* of the blocks before it, and its ECC codewords are those of the encoder
\* for that run.
C23_InterleavedColumnWise ==
  Returned("_apply_error_correction_and_interleave") =>
    LET im == call.args[1]
        codewords == call.args[4]
        shapes == block_shapes(QR_CAPACITY_TABLE[call.args[2]][call.args[3]].groups)
        before(b) == SeqSum([a \in 1..(b - 1) |-> shapes[a][1]])
        run(b) == SubSeq(codewords, before(b) + 1, before(b) + shapes[b][1])
        runs == [b \in DOMAIN shapes |-> run(b)]
        eccs == [b \in DOMAIN shapes |-> rs_encode(im, run(b), shapes[b][2])]
    IN  /\ ret[1] = column_wise(runs) \o column_wise(eccs)
        /\ Len(ret[1]) = SeqSum([b \in DOMAIN shapes |-> shapes[b][1] + shapes[b][2]])

\* four blocks of two lengths (15, 15, 16, 16 data codewords) were interleaved
C23_Witness ==
  /\ Returned("_apply_error_correction_and_interleave")
  /\ call.args[2] = 5
  /\ call.args[3] = "Q"
  /\ call.args[4][1] = 37
  /\ Len(ret[1]) = 150
  /\ SubSeq(ret[1], 1, 4) = <<37, (37 * 16) % 256, (37 * 31) % 256, (37 * 47) % 256>>

\* C24: for every payload version selection accepts, DataEncoder.encode yields
\* at most 8 * (sum over the groups of num_blocks * data_words) bits for the
\* selected (version, level), so the cut to the data codewords in _generate
\* drops no mode, count or payload bit.
C24_EncodedFitsDataCodewords ==
  pc \in {"encoded", "padded", "codewords"} =>
    LET groups == QR_CAPACITY_TABLE[version][error_correction].groups
    IN  /\ Len(encoded_data) <= 8 * data_codewords_count(groups)
        /\ pc = "codewords" =>
              SubSeq(to_bits(data_codewords), 1, Len(encoded_data)) = encoded_data

\* C25: in Byte mode the data bits that follow the mode and count fields are
\* the UTF-8 bytes of the payload, 8 bits each, most significant bit first,
\* also for characters of code point 128 or more.
C25_ByteModeUtf8 ==
  (pc \in {"encoded", "padded"} /\ mode = "BYTE") =>
    LET header == 4 + get_char_count_bits(mode, version)
        bytes == utf8_encode(data)
    IN  SubSeq(encoded_data, header + 1, Len(encoded_data))
          = Flatten([i \in DOMAIN bytes |-> bits_msb(bytes[i], 8)])

\* C26: place_data changes only cells that _is_data_cell accepts or that were
\* unset: every cell the constructor gave a value (finder, separator, timing,
\* alignment, dark module) has that value after place_data, whatever the
\* length of the bit stream.
C26_PlaceDataFrame ==
  Returned("place_data") =>
    LET v == call.args[2]
        before == QRMatrix(call.args[1], v)
        after == ret[1]
    IN  \A r \in DOMAIN before : \A c \in DOMAIN before[r] :
           /\ before[r][c] # None => after[r][c] = before[r][c]
           /\ after[r][c] # before[r][c] => (_is_data_cell(v, r, c) \/ before[r][c] = None)

\* the package placed nine dark bits into a version-2 matrix, which holds an
\* alignment pattern: a bit went to (24,24), the cells past the stream are light,
\* the alignment pattern keeps its dark centre and light ring
C26_Witness ==
  /\ Returned("place_data")
  /\ call.args[1] = "pkg"
  /\ call.args[2] = 2
  /\ Len(call.args[3]) = 9
  /\ ret[1][24][24] = True
  /\ ret[1][10][24] = False
  /\ ret[1][18][18] = True
  /\ ret[1][17][17] = False

\* C27: from the construction of the matrix to the finished symbol the module
\* at (n - 8, 8), n = 4 * version + 17, is dark: alignment drawing, data
\* placement, masking and the format information leave it dark.
C27_DarkModule ==
  HasMatrix => matrix[4 * version + 9][8] = True

\* a finished version-2 symbol, where row n - 8 = 17 is in the list of format
\* rows and the format bit of that row is 0
C27_Witness ==
  /\ pc = "done"
  /\ version = 2
  /\ bit(get_format_info(error_correction, mask_pattern), 3) = 0
  /\ matrix[17][8] = True

C29_NumericGroups ==
  Returned("encode_numeric") =>
    LET s == call.args[1]
        out == ret[1]
        n == Len(s)
        full == n \div 3
        digit(i) == s[i] - 48
    IN  /\ Len(out) = 10 * full + (CASE n % 3 = 0 -> 0 [] n % 3 = 1 -> 4 [] n % 3 = 2 -> 7)
        /\ \A g \in 1..full :
              bits_value(SubSeq(out, 10 * g - 9, 10 * g))
                = 100 * digit(3 * g - 2) + 10 * digit(3 * g - 1) + digit(3 * g)
        /\ n % 3 = 1 => bits_value(SubSeq(out, 10 * full + 1, 10 * full + 4)) = digit(n)
        /\ n % 3 = 2 => bits_value(SubSeq(out, 10 * full + 1, 10 * full + 7))
                          = 10 * digit(n - 1) + digit(n)

\* "00109": a group of three with leading zeros, then a last group of two
C29_Witness ==
  /\ Returned("encode_numeric")
  /\ call.args[1] = <<48, 48, 49, 48, 57>>
  /\ ret[1] = <<0, 0, 0, 0, 0, 0, 0, 0, 0, 1,  0, 0, 0, 1, 0, 0, 1>>

\* a polynomial over GF(2) of degree at most i, reduced modulo 0x11D
RECURSIVE gf_reduce(_, _)
gf_reduce(r, i) ==
  IF i < 8 THEN r
  ELSE gf_reduce(IF bit(r, i) = 1 THEN xor(r, 285 * pow2(i - 8)) ELSE r, i - 1)

\* the product of a and b in GF(2^8): carry-less multiplication, then reduction
gf_product(a, b) ==
  gf_reduce(XorAll([i \in 1..8 |-> IF bit(b, i - 1) = 1 THEN a * pow2(i - 1) ELSE 0]), 14)

\* C30: mul(a, b) is the product of a and b in GF(2^8) modulo 0x11D, the index
\* log[a] + log[b] lies in the populated part 0..509 of the exp table,
\* mul(x, inverse(x)) = 1 for x in 1..255, and inverse(0) raises.
C30_FieldProduct ==
  /\ Returned("mul") =>
       LET a == call.args[1]
           b == call.args[2]
           gf == GaloisField
       IN  /\ ret[1] = gf_product(a, b)
           /\ (a # 0 /\ b # 0) => gf.log_table[a] + gf.log_table[b] \in 0..509
  /\ Returned("inverse") =>
       LET x == call.args[1]
           gf == GaloisField
       IN  /\ x \in 1..255
           /\ gf.log_table[x] \in 0..254
           /\ mul(gf, x, ret[1]) = 1
           /\ gf_product(x, ret[1]) = 1
  /\ (call.op = "inverse" /\ call.args[1] = 0) =>
       (ret = <<>> /\ error \in {"", "ValueError: Zero has no inverse"})

\* a product read from the second half of the exp table
C30_Witness ==
  /\ Returned("mul")
  /\ call.args = <<255, 142>>
  /\ GaloisField.log_table[255] + GaloisField.log_table[142] >= 255
  /\ ret[1] = gf_product(255, 142)

====
